---- MODULE Spec2Model ----
(***************************************************************************)
(* react-resplit: the split-layout resize engine of lib/Root.tsx           *)
(* (ResplitRoot) with the panes and splitters that register with it.       *)
(*                                                                         *)
(* Numbers.  Every JavaScript number of the engine (an fr size, a px size, *)
(* a delta) is kept as a fixed-point integer: the number x is the integer  *)
(* x * Scale.  One fr is Scale, 0.01 is Scale / 100, '10px' is 10 * Scale. *)
(* All inputs are chosen so that every quotient the code takes is exact on *)
(* this grid, so sums and comparisons are those of the real numbers.       *)
(*                                                                         *)
(* DOM.  The engine keeps its state in the DOM: the custom properties      *)
(* --resplit-<order> of the root element (style), the attribute            *)
(* data-resplit-collapsed of each child element (collapsedAttr), the       *)
(* attribute aria-valuenow (aria) and data-resplit-active (activeAttr).    *)
(* A child's element exists from the moment the child is registered.       *)
(***************************************************************************)
EXTENDS Integers, Sequences, FiniteSets, TLC

(***************************************************************************)
(* Bounds of the model.                                                    *)
(***************************************************************************)
\* Orders are 0..MaxOrder.
MaxOrder == 4
\* At most MaxResizes resize events (key presses, pointer moves with a
\* non-zero delta, setPaneSizes calls) are delivered in one behaviour.
MaxResizes == 2
\* At most MaxListeners render closures have their mouse listeners attached.
MaxListeners == 1

Orders == 0 .. MaxOrder

\* Fixed-point scale: 1 (one fr, one px) is Scale.
Scale == 3 * 100

\* activeSplitterOrder.current === null
Null == 0 - 1

(***************************************************************************)
(* The numbers that are not finite.  Infinity, -Infinity and NaN are three *)
(* integers outside the range the finite numbers of the model reach, and   *)
(* Plus, Minus and LessEq are +, - and <= of JavaScript on them.           *)
(***************************************************************************)
Infinity == 10 ^ 9

NegInfinity == 0 - Infinity

NaN == 2 * Infinity

IsFinite(x) == NegInfinity < x /\ x < Infinity

\* a + b
Plus(a, b) ==
    IF a = NaN \/ b = NaN THEN NaN
    ELSE IF a = Infinity THEN (IF b = NegInfinity THEN NaN ELSE Infinity)
    ELSE IF a = NegInfinity THEN (IF b = Infinity THEN NaN ELSE NegInfinity)
    ELSE IF b = Infinity \/ b = NegInfinity THEN b
    ELSE a + b

\* a - b
Minus(a, b) ==
    Plus(a, IF b = NaN THEN NaN
            ELSE IF b = Infinity THEN NegInfinity
            ELSE IF b = NegInfinity THEN Infinity
            ELSE 0 - b)

\* a <= b
LessEq(a, b) == a # NaN /\ b # NaN /\ a <= b

(***************************************************************************)
(* CSS values: `${number}fr`, `${number}px`, or no value.                  *)
(***************************************************************************)
NoValue == [u |-> "none", n |-> 0]

\* `${n / den}fr` as a value: Fr(1, 2) is '0.5fr'.
Fr(num, den) == [u |-> "fr", n |-> (num * Scale) \div den]

\* `${p}px`
Px(p) == [u |-> "px", n |-> p * Scale]

\* a number of the engine written back as `${x}fr`
FrOfNumber(x) == [u |-> "fr", n |-> x]

isPx(val) == val.u = "px"

convertFrToNumber(val) == val.n

convertPxToNumber(val) == val.n

\* `${px / containerSize}fr`; a division by zero is Infinity, -Infinity or NaN
convertPxToFr(px, containerSize) ==
    FrOfNumber(IF containerSize # 0 THEN (px * Scale) \div containerSize
               ELSE IF px > 0 THEN Infinity
               ELSE IF px < 0 THEN NegInfinity
               ELSE NaN)

\* isPx(size) ? convertPxToFr(convertPxToNumber(size), rootSize) : size
convertSizeToFr(size, root) ==
    IF isPx(size) THEN convertPxToFr(convertPxToNumber(size), root) ELSE size

\* Number.prototype.toFixed(2) of a number, in hundredths (0.333.. is 33).
ToFixed2(x) ==
    IF IsFinite(x) THEN (2 * 100 * x + Scale) \div (2 * Scale) ELSE x

(***************************************************************************)
(* Child descriptors (PaneChild, SplitterChild), as registerPane and       *)
(* registerSplitter store them.  collapsible and collapsedSize are the     *)
(* options lib/Pane.tsx declares.                                          *)
(***************************************************************************)
PaneChild(minSize, initialSize, collapsible, collapsedSize) ==
    [type |-> "pane", minSize |-> minSize, initialSize |-> initialSize,
     collapsible |-> collapsible, collapsedSize |-> collapsedSize,
     size |-> NoValue]

SplitterChild(size) ==
    [type |-> "splitter", minSize |-> NoValue, initialSize |-> NoValue,
     collapsible |-> FALSE, collapsedSize |-> NoValue, size |-> size]

\* PANE_DEFAULT_MIN_SIZE = '0fr'
PANE_DEFAULT_MIN_SIZE == Fr(0, 1)

\* PANE_DEFAULT_COLLAPSED_SIZE ('0fr' by the documentation of collapsedSize)
PANE_DEFAULT_COLLAPSED_SIZE == Fr(0, 1)

\* SPLITTER_DEFAULT_SIZE = '10px'
SPLITTER_DEFAULT_SIZE == Px(10)

(***************************************************************************)
(* The component trees the host renders (the bounded inputs).  A child     *)
(* registers when it mounts; the registry is at every moment a part of one *)
(* of these layouts.                                                       *)
(***************************************************************************)
\* offsetWidth / offsetHeight of the root element, in px
RootSizes == {620}

\* <ResplitPane /> with every option left to its default
PaneDefault ==
    PaneChild(PANE_DEFAULT_MIN_SIZE, NoValue, FALSE, PANE_DEFAULT_COLLAPSED_SIZE)

\* <ResplitPane minSize="0.2fr" initialSize="0.25fr" />
PaneMin == PaneChild(Fr(1, 5), Fr(1, 4), FALSE, PANE_DEFAULT_COLLAPSED_SIZE)

\* <ResplitPane minSize="0.2fr" initialSize="0.3fr" collapsible collapsedSize="0fr" />
PaneCol == PaneChild(Fr(1, 5), Fr(3, 10), TRUE, Fr(0, 1))

\* <ResplitPane minSize="124px" />  (0.2fr of a 620px root)
PanePx == PaneChild(Px(124), NoValue, FALSE, PANE_DEFAULT_COLLAPSED_SIZE)

Splitter == SplitterChild(SPLITTER_DEFAULT_SIZE)

\* a min-size pane at 0.25fr beside a default pane, and a splitter after them
\* that mounts later
LayoutMin ==
    (0 :> PaneMin) @@ (1 :> Splitter) @@ (2 :> PaneDefault) @@ (3 :> Splitter)

\* a collapsible pane at 0.3fr beside a default pane
LayoutCol == (0 :> PaneCol) @@ (1 :> Splitter) @@ (2 :> PaneDefault)

\* pane | splitter | pane, and a third pane with a px minimum that mounts later
LayoutThree ==
    (0 :> PaneDefault) @@ (1 :> Splitter) @@ (2 :> PaneDefault)
        @@ (3 :> Splitter) @@ (4 :> PanePx)

\* order keys with gaps: panes at 0 and 4, the splitter at 2
LayoutGap == (0 :> PaneDefault) @@ (2 :> Splitter) @@ (4 :> PaneDefault)

Layouts == {LayoutMin, LayoutCol, LayoutThree, LayoutGap}

\* ch is a part of the layout L
PartOf(ch, L) ==
    /\ DOMAIN ch \subseteq DOMAIN L
    /\ \A o \in DOMAIN ch : ch[o] = L[o]

(***************************************************************************)
(* State.                                                                  *)
(***************************************************************************)
VARIABLES
    children,             \* useState<ChildrenState>: order -> descriptor
    rootSize,             \* the container extent in px (getRootSize)
    style,                \* --resplit-<order> of the root element
    collapsedAttr,        \* data-resplit-collapsed of the child elements
    aria,                 \* aria-valuenow of the child elements, in hundredths
    activeSplitterOrder,  \* useRef<number | null>
    activeAttr,           \* data-resplit-active of the child elements
    resizing,             \* data-resplit-resizing of the root element
    docOverride,          \* cursor / pointerEvents / userSelect of <html> set
    listeners,            \* the render closures whose mouseup/mousemove are attached
    last,                 \* the last event delivered and what it did
    resizes,              \* number of resize events delivered so far
    mounted,              \* the ResplitRoot is in the tree
    direction,            \* the direction prop of the ResplitRoot
    gone,                 \* the registered orders whose element has unmounted
    started               \* history: the panes whose onResizeStart was called
                          \* since the active slot was last emptied

vars ==
    <<children, rootSize, style, collapsedAttr, aria, activeSplitterOrder,
      activeAttr, resizing, docOverride, listeners, last, resizes, mounted,
      direction, gone, started>>

\* The mutable state outside React's own (the DOM, the ref, the window's
\* listeners) as one record, with the hooks (onResize, onResizeStart,
\* onResizeEnd) called during the event being handled.
Dom ==
    [style |-> style, collapsed |-> collapsedAttr, aria |-> aria, notes |-> <<>>,
     active |-> activeSplitterOrder, activeAttr |-> activeAttr,
     resizing |-> resizing, docOverride |-> docOverride, listeners |-> listeners]

\* The orders whose element is in the document.
Elements == DOMAIN children \ gone

\* a thrown TypeError ends the handler: the writes made before it stay
Thrown(d) == [d |-> d, err |-> TRUE]

Done(d) == [d |-> d, err |-> FALSE]

getChildSize(d, order) == d.style[order]

getChildSizeAsNumber(d, order) ==
    LET childSize == getChildSize(d, order)
    IN  IF childSize.u = "none" THEN 0
        ELSE IF isPx(childSize) THEN convertPxToNumber(childSize)
        ELSE convertFrToNumber(childSize)

\* setChildSize that sets the property and leaves aria-valuenow alone.
setChildSize_NoAria(ch, els, d, order, size) ==
    LET d1 == [d EXCEPT !.style[order] = size]
    IN  IF order \notin DOMAIN ch THEN Thrown(d1) ELSE Done(d1)

\* setChildSize as written: the property is set, then children[order] is read.
setChildSize(ch, els, d, order, size) ==
    LET d1 == [d EXCEPT !.style[order] = size]
    IN  IF order \notin DOMAIN ch THEN Thrown(d1)
        ELSE IF ch[order].type = "pane" /\ (order + 1) \in els
             THEN Done([d1 EXCEPT !.aria[order + 1] = ToFixed2(convertFrToNumber(size))])
             ELSE Done(d1)

getPaneCollapsed(els, d, order) == order \in els /\ d.collapsed[order]

setPaneCollapsed(els, d, order, isCollapsed) ==
    IF order \in els THEN [d EXCEPT !.collapsed[order] = isCollapsed] ELSE d

\* a hook of the pane at order is called with size
Notify(d, hook, order, size) ==
    [d EXCEPT !.notes = Append(@, [hook |-> hook, order |-> order, size |-> size])]

getRootSize == rootSize * Scale

(***************************************************************************)
(* resizeByDelta: the search for the two panes.                            *)
(***************************************************************************)
RECURSIVE ScanPrev(_, _, _, _)
\* while (prevPaneIndex >= 0) { ... }
ScanPrev(ch, els, d, i) ==
    IF i < 0 THEN [res |-> "none", idx |-> i]
    ELSE IF i \notin DOMAIN ch THEN [res |-> "throw", idx |-> i]
    ELSE IF ch[i].type = "splitter" \/ getPaneCollapsed(els, d, i)
         THEN ScanPrev(ch, els, d, i - 1)
         ELSE [res |-> "found", idx |-> i]

RECURSIVE ScanNext(_, _, _, _)
\* while (nextPaneIndex < Object.values(children).length) { ... }
ScanNext(ch, els, d, i) ==
    IF i >= Cardinality(DOMAIN ch) THEN [res |-> "none", idx |-> i]
    ELSE IF i \notin DOMAIN ch THEN [res |-> "throw", idx |-> i]
    ELSE IF ch[i].type = "splitter" \/ getPaneCollapsed(els, d, i)
         THEN ScanNext(ch, els, d, i + 1)
         ELSE [res |-> "found", idx |-> i]

\* let prevPane = children[prevPaneIndex] as PaneChild, with no scan
Direct(ch, i) ==
    IF i \in DOMAIN ch THEN [res |-> "found", idx |-> i] ELSE [res |-> "none", idx |-> i]

\* FindPrev that scans whatever the sign of the delta.
FindPrev_AlwaysScans(ch, els, d, splitterOrder, delta) ==
    IF splitterOrder - 1 >= 0
    THEN ScanPrev(ch, els, d, splitterOrder - 1)
    ELSE Direct(ch, splitterOrder - 1)

\* let prevPaneIndex = splitterOrder - 1 ... if (isShrinking) { while ... }
FindPrev(ch, els, d, splitterOrder, delta) ==
    IF delta < 0 /\ splitterOrder - 1 >= 0
    THEN ScanPrev(ch, els, d, splitterOrder - 1)
    ELSE Direct(ch, splitterOrder - 1)

\* let nextPaneIndex = splitterOrder + 1 ... if (isGrowing) { while ... }
FindNext(ch, els, d, splitterOrder, delta) ==
    IF delta > 0 /\ splitterOrder + 1 < Cardinality(DOMAIN ch)
    THEN ScanNext(ch, els, d, splitterOrder + 1)
    ELSE Direct(ch, splitterOrder + 1)

\* convertFrToNumber(isPx(minSize) ? convertPxToFr(convertPxToNumber(minSize), rootSize) : minSize)
MinSizeNumber(pane, root) ==
    convertFrToNumber(
        IF isPx(pane.minSize)
        THEN convertPxToFr(convertPxToNumber(pane.minSize), root)
        ELSE pane.minSize)

(***************************************************************************)
(* resizeByDelta: the new sizes and flags of the two panes.                *)
(***************************************************************************)
\* prevPaneIsCollapsed = prevPaneSize <= prevPaneMinSize
IsCollapsedAt(size, minSize) == LessEq(size, minSize)

\* ResolveSizes with the delta left out of the next pane's size.
ResolveSizes_NextKeepsSize(prevCurrent, prevMin, nextCurrent, nextMin, delta) ==
    LET prevSize0 == Plus(prevCurrent, delta)
        prevPaneIsCollapsed == IsCollapsedAt(prevSize0, prevMin)
        nextSize0 == nextCurrent
        nextPaneIsCollapsed == IsCollapsedAt(nextSize0, nextMin)
        nextSize1 == IF prevPaneIsCollapsed
                     THEN Plus(nextSize0, Minus(prevSize0, prevMin)) ELSE nextSize0
        prevSize1 == IF prevPaneIsCollapsed THEN prevMin ELSE prevSize0
        prevSize2 == IF nextPaneIsCollapsed
                     THEN Plus(prevSize1, Minus(nextSize1, nextMin)) ELSE prevSize1
        nextSize2 == IF nextPaneIsCollapsed THEN nextMin ELSE nextSize1
    IN  [prevSize |-> prevSize2, nextSize |-> nextSize2,
         prevCollapsed |-> prevPaneIsCollapsed,
         nextCollapsed |-> nextPaneIsCollapsed]

\* ResolveSizes with the sign of the delta taken the other way round.
ResolveSizes_SignSwapped(prevCurrent, prevMin, nextCurrent, nextMin, delta) ==
    LET prevSize0 == Minus(prevCurrent, delta)
        prevPaneIsCollapsed == IsCollapsedAt(prevSize0, prevMin)
        nextSize0 == Plus(nextCurrent, delta)
        nextPaneIsCollapsed == IsCollapsedAt(nextSize0, nextMin)
        nextSize1 == IF prevPaneIsCollapsed
                     THEN Plus(nextSize0, Minus(prevSize0, prevMin)) ELSE nextSize0
        prevSize1 == IF prevPaneIsCollapsed THEN prevMin ELSE prevSize0
        prevSize2 == IF nextPaneIsCollapsed
                     THEN Plus(prevSize1, Minus(nextSize1, nextMin)) ELSE prevSize1
        nextSize2 == IF nextPaneIsCollapsed THEN nextMin ELSE nextSize1
    IN  [prevSize |-> prevSize2, nextSize |-> nextSize2,
         prevCollapsed |-> prevPaneIsCollapsed,
         nextCollapsed |-> nextPaneIsCollapsed]

\* ResolveSizes that clamps a pane to its minSize and drops the remainder.
ResolveSizes_DropsRemainder(prevCurrent, prevMin, nextCurrent, nextMin, delta) ==
    LET prevSize0 == Plus(prevCurrent, delta)
        prevPaneIsCollapsed == IsCollapsedAt(prevSize0, prevMin)
        nextSize0 == Minus(nextCurrent, delta)
        nextPaneIsCollapsed == IsCollapsedAt(nextSize0, nextMin)
    IN  [prevSize |-> IF prevPaneIsCollapsed THEN prevMin ELSE prevSize0,
         nextSize |-> IF nextPaneIsCollapsed THEN nextMin ELSE nextSize0,
         prevCollapsed |-> prevPaneIsCollapsed,
         nextCollapsed |-> nextPaneIsCollapsed]

\* ResolveSizes with the two clamps in the other order: next first, then prev.
ResolveSizes_NextFirst(prevCurrent, prevMin, nextCurrent, nextMin, delta) ==
    LET prevSize0 == Plus(prevCurrent, delta)
        prevPaneIsCollapsed == IsCollapsedAt(prevSize0, prevMin)
        nextSize0 == Minus(nextCurrent, delta)
        nextPaneIsCollapsed == IsCollapsedAt(nextSize0, nextMin)
        prevSize1 == IF nextPaneIsCollapsed
                     THEN Plus(prevSize0, Minus(nextSize0, nextMin)) ELSE prevSize0
        nextSize1 == IF nextPaneIsCollapsed THEN nextMin ELSE nextSize0
        nextSize2 == IF prevPaneIsCollapsed
                     THEN Plus(nextSize1, Minus(prevSize1, prevMin)) ELSE nextSize1
        prevSize2 == IF prevPaneIsCollapsed THEN prevMin ELSE prevSize1
    IN  [prevSize |-> prevSize2, nextSize |-> nextSize2,
         prevCollapsed |-> prevPaneIsCollapsed,
         nextCollapsed |-> nextPaneIsCollapsed]

\* ResolveSizes whose prev clamp keeps what it cuts off instead of handing it
\* to the next pane.
ResolveSizes_PrevClampKeeps(prevCurrent, prevMin, nextCurrent, nextMin, delta) ==
    LET prevSize0 == Plus(prevCurrent, delta)
        prevPaneIsCollapsed == IsCollapsedAt(prevSize0, prevMin)
        nextSize0 == Minus(nextCurrent, delta)
        nextPaneIsCollapsed == IsCollapsedAt(nextSize0, nextMin)
        prevSize1 == IF prevPaneIsCollapsed THEN prevMin ELSE prevSize0
        prevSize2 == IF nextPaneIsCollapsed
                     THEN Plus(prevSize1, Minus(nextSize0, nextMin)) ELSE prevSize1
        nextSize2 == IF nextPaneIsCollapsed THEN nextMin ELSE nextSize0
    IN  [prevSize |-> prevSize2, nextSize |-> nextSize2,
         prevCollapsed |-> prevPaneIsCollapsed,
         nextCollapsed |-> nextPaneIsCollapsed]

\* The arithmetic of resizeByDelta, from the two current sizes.
ResolveSizes(prevCurrent, prevMin, nextCurrent, nextMin, delta) ==
    LET prevSize0 == Plus(prevCurrent, delta)
        prevPaneIsCollapsed == IsCollapsedAt(prevSize0, prevMin)
        nextSize0 == Minus(nextCurrent, delta)
        nextPaneIsCollapsed == IsCollapsedAt(nextSize0, nextMin)
        \* if (prevPaneIsCollapsed) { ... }
        nextSize1 == IF prevPaneIsCollapsed
                     THEN Plus(nextSize0, Minus(prevSize0, prevMin)) ELSE nextSize0
        prevSize1 == IF prevPaneIsCollapsed THEN prevMin ELSE prevSize0
        \* if (nextPaneIsCollapsed) { ... }
        prevSize2 == IF nextPaneIsCollapsed
                     THEN Plus(prevSize1, Minus(nextSize1, nextMin)) ELSE prevSize1
        nextSize2 == IF nextPaneIsCollapsed THEN nextMin ELSE nextSize1
    IN  [prevSize |-> prevSize2, nextSize |-> nextSize2,
         prevCollapsed |-> prevPaneIsCollapsed,
         nextCollapsed |-> nextPaneIsCollapsed]

\* What a call of resizeByDelta returns to the model: the DOM after it, whether
\* it threw, whether it wrote, and the two panes its search ended on (Null for
\* a side on which it found none).
Resolved(d, err, acted, prev, next) ==
    [d |-> d, err |-> err, acted |-> acted, prev |-> prev, next |-> next]

\* WriteSizes, but the call also clears the flag of every pane it did not
\* resolve.
WriteSizes_ClearsOtherFlags(ch, els, d, prevIdx, nextIdx, r) ==
    LET a == setChildSize(ch, els, d, prevIdx, FrOfNumber(r.prevSize)).d
        b == setPaneCollapsed(els, a, prevIdx, r.prevCollapsed)
        c == Notify(b, "onResize", prevIdx, FrOfNumber(r.prevSize))
        e == setChildSize(ch, els, c, nextIdx, FrOfNumber(r.nextSize)).d
        f == setPaneCollapsed(els, e, nextIdx, r.nextCollapsed)
        g == [f EXCEPT !.collapsed = [o \in DOMAIN @ |->
                                        IF o \in {prevIdx, nextIdx} THEN @[o] ELSE FALSE]]
    IN  Notify(g, "onResize", nextIdx, FrOfNumber(r.nextSize))

\* WriteSizes that calls onResize of the prev pane with the size it had before
\* the write.
WriteSizes_NotifiesOldSize(ch, els, d, prevIdx, nextIdx, r) ==
    LET a == setChildSize(ch, els, d, prevIdx, FrOfNumber(r.prevSize)).d
        b == setPaneCollapsed(els, a, prevIdx, r.prevCollapsed)
        c == Notify(b, "onResize", prevIdx, getChildSize(d, prevIdx))
        e == setChildSize(ch, els, c, nextIdx, FrOfNumber(r.nextSize)).d
        f == setPaneCollapsed(els, e, nextIdx, r.nextCollapsed)
    IN  Notify(f, "onResize", nextIdx, FrOfNumber(r.nextSize))

\* The writes of resizeByDelta, prev pane first.
WriteSizes(ch, els, d, prevIdx, nextIdx, r) ==
    LET a == setChildSize(ch, els, d, prevIdx, FrOfNumber(r.prevSize)).d
        b == setPaneCollapsed(els, a, prevIdx, r.prevCollapsed)
        c == Notify(b, "onResize", prevIdx, FrOfNumber(r.prevSize))
        e == setChildSize(ch, els, c, nextIdx, FrOfNumber(r.nextSize)).d
        f == setPaneCollapsed(els, e, nextIdx, r.nextCollapsed)
    IN  Notify(f, "onResize", nextIdx, FrOfNumber(r.nextSize))

\* resizeByDelta(splitterOrder, delta), run by a render closure that holds the
\* registry ch, on the DOM d.
resizeByDelta(ch, els, d, splitterOrder, delta) ==
    LET p == FindPrev(ch, els, d, splitterOrder, delta)
        n == FindNext(ch, els, d, splitterOrder, delta)
    IN  IF p.res = "throw" THEN Resolved(d, TRUE, FALSE, Null, Null)
        ELSE IF n.res = "throw" THEN Resolved(d, TRUE, FALSE, Null, Null)
        \* if (!prevPane || !nextPane) return;
        ELSE IF p.res = "none" \/ n.res = "none"
             THEN Resolved(d, FALSE, FALSE,
                           IF p.res = "none" THEN Null ELSE p.idx,
                           IF n.res = "none" THEN Null ELSE n.idx)
        \* isPx(prevPane.minSize) on a descriptor that has no minSize
        ELSE IF ch[p.idx].minSize.u = "none" \/ ch[n.idx].minSize.u = "none"
             THEN Resolved(d, TRUE, FALSE, Null, Null)
        ELSE LET r == ResolveSizes(
                          getChildSizeAsNumber(d, p.idx),
                          MinSizeNumber(ch[p.idx], getRootSize),
                          getChildSizeAsNumber(d, n.idx),
                          MinSizeNumber(ch[n.idx], getRootSize),
                          delta)
             IN  Resolved(WriteSizes(ch, els, d, p.idx, n.idx, r),
                          FALSE, TRUE, p.idx, n.idx)

(***************************************************************************)
(* The re-derivation pass: the layout effect that depends on the number of *)
(* children.                                                               *)
(***************************************************************************)
PaneCount(ch) == Cardinality({o \in DOMAIN ch : ch[o].type = "pane"})

\* DerivedPaneSize that does not read the flag of the pane.
DerivedPaneSize_IgnoresCollapsed(ch, els, d, order) ==
    IF ch[order].initialSize.u # "none" THEN ch[order].initialSize
    ELSE Fr(1, PaneCount(ch))

\* getPaneCollapsed(order) ? '0fr' : child.initialSize || `${1 / paneCount}fr`
DerivedPaneSize(ch, els, d, order) ==
    IF getPaneCollapsed(els, d, order) THEN Fr(0, 1)
    ELSE IF ch[order].initialSize.u # "none" THEN ch[order].initialSize
    ELSE Fr(1, PaneCount(ch))

RECURSIVE Rederive(_, _, _, _)
\* Object.keys(children).forEach(...), in ascending order from order i
Rederive(ch, els, d, i) ==
    IF i > MaxOrder THEN d
    ELSE IF i \notin DOMAIN ch THEN Rederive(ch, els, d, i + 1)
    ELSE LET size == IF ch[i].type = "pane"
                     THEN DerivedPaneSize(ch, els, d, i)
                     ELSE ch[i].size
         IN  Rederive(ch, els, setChildSize(ch, els, d, i, size).d, i + 1)

(***************************************************************************)
(* Events.  Each action is one event handled to its end.  last records the *)
(* event, the hooks it called (notes), whether a handler threw (err) and   *)
(* the panes a resizeByDelta call resolved (prev, next).                   *)
(***************************************************************************)
\* the panes a hook of the given name was called on, among the calls in notes
Hooked(notes, hook) ==
    {notes[i].order : i \in {j \in DOMAIN notes : notes[j].hook = hook}}

Commit(d, op, order, arg, err, acted, prev, next) ==
    /\ style' = d.style
    /\ collapsedAttr' = d.collapsed
    /\ aria' = d.aria
    /\ activeSplitterOrder' = d.active
    /\ activeAttr' = d.activeAttr
    /\ resizing' = d.resizing
    /\ docOverride' = d.docOverride
    /\ listeners' = d.listeners
    /\ mounted' = mounted
    /\ direction' = direction
    /\ gone' = gone
    /\ started' = IF op = "pointerUp" /\ d.active = Null THEN {}
                  ELSE started \cup Hooked(d.notes, "onResizeStart")
    /\ last' = [op |-> op, order |-> order, arg |-> arg, err |-> err,
                acted |-> acted, prev |-> prev, next |-> next,
                notes |-> d.notes]

\* setChildren((children) => ({ ...children, [order]: { type, ...options } }))
\* followed, when the number of children changed, by the layout effect.
Register(order, child) ==
    \E ch \in {[o \in DOMAIN children \cup {order} |->
                    IF o = order THEN child ELSE children[o]]} :
        /\ mounted
        /\ \E L \in Layouts :
              /\ PartOf(ch, L)
              \* children mount, and so register, in document order
              /\ \A o \in DOMAIN L : o < order => o \in DOMAIN ch
        /\ children' = ch
        /\ \E d \in {IF Cardinality(DOMAIN ch) # Cardinality(DOMAIN children)
                      THEN Rederive(ch, DOMAIN ch \ gone, Dom, 0)
                      ELSE Dom} :
             Commit(d, "register", order, 0, FALSE, FALSE, Null, Null)
        /\ UNCHANGED <<rootSize, resizes>>

\* registerPane, called by the layout effect of a pane that mounts
registerPane(order, options) ==
    /\ options.type = "pane"
    /\ order \notin DOMAIN children
    /\ Register(order, options)

\* registerSplitter, called by the layout effect of a splitter that mounts
registerSplitter(order, options) ==
    /\ options.type = "splitter"
    /\ order \notin DOMAIN children
    /\ Register(order, options)

\* A child unmounts: React removes its element, and with it the attributes
\* the engine kept on it.  Neither the panes nor the splitters have an effect
\* cleanup and the root has no removal, so the registry is left as it is and
\* the layout effect, keyed on the number of children, does not run.
Unmount(order) ==
    /\ mounted
    /\ order \in Elements
    /\ gone' = gone \cup {order}
    /\ collapsedAttr' = [collapsedAttr EXCEPT ![order] = FALSE]
    /\ aria' = [aria EXCEPT ![order] = 100]
    /\ activeAttr' = [activeAttr EXCEPT ![order] = FALSE]
    /\ last' = [op |-> "unmount", order |-> order, arg |-> 0, err |-> FALSE,
                acted |-> FALSE, prev |-> Null, next |-> Null, notes |-> <<>>]
    /\ UNCHANGED <<children, rootSize, style, activeSplitterOrder, resizing,
                   docOverride, listeners, resizes, mounted, direction,
                   started>>

\* The options of a pane that mounts at an order an earlier pane registered.
PaneUpdates == {PaneDefault, PaneMin}

\* registerPane called for an order that is registered: a pane unmounted (the
\* registry has no removal) and a pane with other options mounts at its order.
\* setChildren stores the new descriptor; the number of children is the same,
\* so the layout effect does not run.
reregisterPane(order, options) ==
    /\ mounted
    /\ order \in DOMAIN children
    /\ children[order].type = "pane"
    /\ options.type = "pane"
    /\ options # children[order]
    /\ children' = [children EXCEPT ![order] = options]
    /\ Commit(Dom, "reregister", order, 0, FALSE, FALSE, Null, Null)
    /\ UNCHANGED <<rootSize, resizes>>

\* type Direction = 'horizontal' | 'vertical'
Directions == {"horizontal", "vertical"}

\* The keys handleSplitterKeyDown acts on in a horizontal layout.
Keys == {"ArrowLeft", "ArrowRight", "Home", "End", "Enter"}

\* The keys handleSplitterKeyDown tests for.
AllKeys == Keys \cup {"ArrowUp", "ArrowDown"}

\* handleSplitterKeyDown that takes the four arrows in either direction.
KeyActs_AnyArrow(dir, key) == key \in AllKeys

\* The key is one a branch of handleSplitterKeyDown is taken for: the arrows
\* along the direction, Home, End and Enter.
KeyActs(dir, key) ==
    \/ key \in {"ArrowLeft", "ArrowRight"} /\ dir = "horizontal"
    \/ key \in {"ArrowUp", "ArrowDown"} /\ dir = "vertical"
    \/ key \in {"Home", "End", "Enter"}

\* 0.01
KeyStep == Scale \div 100

\* KeyDelta with End a step of 0.01 like ArrowRight.
KeyDelta_EndIsStep(ch, els, d, splitterOrder, key) ==
    CASE key = "ArrowLeft"  -> 0 - KeyStep
      [] key = "ArrowUp"    -> 0 - KeyStep
      [] key = "ArrowRight" -> KeyStep
      [] key = "ArrowDown"  -> KeyStep
      [] key = "Home"       -> 0 - Scale
      [] key = "End"        -> KeyStep
      [] key = "Enter"      ->
            IF getPaneCollapsed(els, d, splitterOrder - 1)
            THEN IF ch[splitterOrder - 1].initialSize.u # "none"
                 THEN convertFrToNumber(ch[splitterOrder - 1].initialSize)
                 ELSE Scale
            ELSE 0 - Scale

\* The delta handleSplitterKeyDown passes to resizeByDelta.
KeyDelta(ch, els, d, splitterOrder, key) ==
    CASE key = "ArrowLeft"  -> 0 - KeyStep
      [] key = "ArrowUp"    -> 0 - KeyStep
      [] key = "ArrowRight" -> KeyStep
      [] key = "ArrowDown"  -> KeyStep
      [] key = "Home"       -> 0 - Scale
      [] key = "End"        -> Scale
      [] key = "Enter"      ->
            IF getPaneCollapsed(els, d, splitterOrder - 1)
            THEN IF ch[splitterOrder - 1].initialSize.u # "none"
                 THEN convertFrToNumber(ch[splitterOrder - 1].initialSize)
                 ELSE Scale
            ELSE 0 - Scale

\* handleSplitterKeyDown that also empties the active slot.
handleSplitterKeyDown_EndsDrag(splitterOrder, key) ==
    /\ splitterOrder \in Elements
    /\ children[splitterOrder].type = "splitter"
    /\ resizes < MaxResizes
    /\ \E delta \in {KeyDelta(children, Elements, Dom, splitterOrder, key)} :
       \E r \in {IF KeyActs(direction, key)
                 THEN resizeByDelta(children, Elements, Dom, splitterOrder, delta)
                 ELSE Resolved(Dom, FALSE, FALSE, Null, Null)} :
         Commit([r.d EXCEPT !.active = Null], key, splitterOrder, delta,
                r.err, r.acted, r.prev, r.next)
    /\ resizes' = resizes + 1
    /\ UNCHANGED <<children, rootSize>>

\* onKeyDown of the splitter at splitterOrder
handleSplitterKeyDown(splitterOrder, key) ==
    /\ splitterOrder \in Elements
    /\ children[splitterOrder].type = "splitter"
    /\ resizes < MaxResizes
    /\ \E delta \in {KeyDelta(children, Elements, Dom, splitterOrder, key)} :
       \E r \in {IF KeyActs(direction, key)
                 THEN resizeByDelta(children, Elements, Dom, splitterOrder, delta)
                 ELSE Resolved(Dom, FALSE, FALSE, Null, Null)} :
         Commit(r.d, key, splitterOrder, delta, r.err, r.acted, r.prev, r.next)
    /\ resizes' = resizes + 1
    /\ UNCHANGED <<children, rootSize>>

(***************************************************************************)
(* setPaneSizes of the context value.                                      *)
(***************************************************************************)
\* The argument lists the host passes.
SizeLists ==
    { <<Fr(1, 2), Fr(1, 2)>>,
      <<Fr(1, 5), Fr(4, 5)>>,
      <<Fr(0, 1), Fr(1, 10)>>,
      <<Fr(1, 4), Fr(1, 4), Fr(1, 2)>> }

RECURSIVE SetSizesFrom(_, _, _, _, _)
\* paneSizes.forEach((paneSize, index) => { ... }), from index i (0-based)
SetSizesFrom(ch, els, d, paneSizes, i) ==
    IF i >= Len(paneSizes) THEN Done(d)
    ELSE LET order == i * 2
             paneSize == paneSizes[i + 1]
             r == setChildSize(ch, els, d, order, paneSize)
         IN  IF r.err THEN r
             ELSE SetSizesFrom(ch, els,
                      setPaneCollapsed(els, r.d, order, ch[order].minSize = paneSize),
                      paneSizes, i + 1)

setPaneSizes(paneSizes) ==
    /\ children # <<>>
    /\ resizes < MaxResizes
    /\ \E r \in {SetSizesFrom(children, Elements, Dom, paneSizes, 0)} :
         Commit(r.d, "setPaneSizes", Null, paneSizes, r.err, FALSE, Null, Null)
    /\ resizes' = resizes + 1
    /\ UNCHANGED <<children, rootSize>>

\* The sizes the panes have, in ascending order of the panes: the list a host
\* passes to write back the sizes it observed.
CurrentSizes ==
    LET P == {o \in DOMAIN children : children[o].type = "pane"}
    IN  [i \in 1 .. Cardinality(P) |->
            style[CHOOSE o \in P : Cardinality({p \in P : p < o}) = i - 1]]

(***************************************************************************)
(* The drag session: mousedown on a splitter, mousemove and mouseup on the *)
(* window.  A listener is the closure of the render that attached it, and  *)
(* holds that render's registry.                                           *)
(***************************************************************************)
SetActiveAttr(els, d, order, value) ==
    IF order \in els THEN [d EXCEPT !.activeAttr[order] = value] ELSE d

\* window.addEventListener: the same closure is attached once
AddListener(ls, ch) ==
    IF \E i \in 1 .. Len(ls) : ls[i] = ch THEN ls ELSE Append(ls, ch)

\* window.removeEventListener
RemoveListener(ls, ch) == SelectSeq(ls, LAMBDA c : c # ch)

\* if (pane.type === 'pane') pane.onResizeStart?.()  /  pane.onResizeEnd?.(size)
NotifyIfPane(ch, d, hook, order, size) ==
    IF ch[order].type = "pane" THEN Notify(d, hook, order, size) ELSE d

\* handleSplitterMouseDown(order)(), of the render whose registry is ch
MouseDown(ch, els, d, order) ==
    LET d1 == SetActiveAttr(els, [d EXCEPT !.active = order, !.resizing = TRUE],
                            order, TRUE)
    IN  IF (order - 1) \notin DOMAIN ch THEN Thrown(d1)
        ELSE LET d2 == NotifyIfPane(ch, d1, "onResizeStart", order - 1, NoValue)
             IN  IF (order + 1) \notin DOMAIN ch THEN Thrown(d2)
                 ELSE LET d3 == NotifyIfPane(ch, d2, "onResizeStart", order + 1, NoValue)
                      IN  Done([d3 EXCEPT !.docOverride = TRUE,
                                          !.listeners = AddListener(@, ch)])

\* handleMouseUp(), of the render whose registry is ch
MouseUp(ch, els, d) ==
    LET order == d.active
        d1 == SetActiveAttr(els, [d EXCEPT !.resizing = FALSE], order, FALSE)
    IN  IF order = Null THEN Done(d)
        ELSE IF (order - 1) \notin DOMAIN ch THEN Thrown(d1)
        ELSE LET d2 == NotifyIfPane(ch, d1, "onResizeEnd", order - 1,
                                    getChildSize(d1, order - 1))
             IN  IF (order + 1) \notin DOMAIN ch THEN Thrown(d2)
                 ELSE LET d3 == NotifyIfPane(ch, d2, "onResizeEnd", order + 1,
                                             getChildSize(d2, order + 1))
                      IN  Done([d3 EXCEPT !.active = Null,
                                          !.docOverride = FALSE,
                                          !.listeners = RemoveListener(@, ch)])

RECURSIVE MouseUpAll(_, _, _, _, _)
\* a mouseup event: every attached handleMouseUp runs, in the order attached
MouseUpAll(ls, i, els, d, err) ==
    IF i > Len(ls) THEN [d |-> d, err |-> err]
    ELSE LET r == MouseUp(ls[i], els, d)
         IN  MouseUpAll(ls, i + 1, els, r.d, err \/ r.err)

RECURSIVE CombinedSplitterSize(_, _, _)
\* Object.entries(children).reduce(...): the sizes of the splitters, from order i
CombinedSplitterSize(ch, d, i) ==
    IF i > MaxOrder THEN 0
    ELSE (IF i \in DOMAIN ch /\ ch[i].type = "splitter"
          THEN getChildSizeAsNumber(d, i) ELSE 0)
         + CombinedSplitterSize(ch, d, i + 1)

AvailableSpace(ch, d) == getRootSize - CombinedSplitterSize(ch, d, 0)

\* const delta = movement / availableSpace
MoveDelta(movement, availableSpace) ==
    IF availableSpace # 0 THEN (movement * Scale) \div availableSpace
    ELSE IF movement > 0 THEN Infinity
    ELSE IF movement < 0 THEN NegInfinity
    ELSE NaN

\* handleMouseMove(e), of the render whose registry is ch; movement is
\* e.clientX - splitterRect.left
MouseMove(ch, els, d, movement) ==
    IF d.active = Null THEN Resolved(d, FALSE, FALSE, Null, Null)
    ELSE IF d.active \notin els THEN Resolved(d, FALSE, FALSE, Null, Null)
    ELSE LET delta == MoveDelta(movement, AvailableSpace(ch, d))
         \* if (!delta) return;
         IN  IF delta = 0 \/ delta = NaN THEN Resolved(d, FALSE, FALSE, Null, Null)
             ELSE resizeByDelta(ch, els, d, d.active, delta)

\* The pointer positions delivered: the movement that is the fraction dd of
\* the available space the listener measures.
DragDeltas == {0 - (Scale \div 4), 0 - (Scale \div 10), 0, Scale \div 10}

Movement(ch, d, dd) ==
    IF AvailableSpace(ch, d) = 0 THEN dd
    ELSE dd * (AvailableSpace(ch, d) \div Scale)

RECURSIVE MouseMoveAll(_, _, _, _, _, _)
\* a mousemove event: every attached handleMouseMove runs; dds[i] is the
\* fraction the i-th listener measures
MouseMoveAll(ls, i, els, dds, d, acc) ==
    IF i > Len(ls) THEN [acc EXCEPT !.d = d]
    ELSE LET r == MouseMove(ls[i], els, d, Movement(ls[i], d, dds[i]))
         IN  MouseMoveAll(ls, i + 1, els, dds, r.d,
                          IF r.acted \/ r.err
                          THEN [r EXCEPT !.err = r.err \/ acc.err,
                                         !.acted = r.acted \/ acc.acted]
                          ELSE acc)

\* onMouseDown of the splitter at order
PointerDown(order) ==
    /\ order \in Elements
    /\ children[order].type = "splitter"
    /\ \/ Len(listeners) < MaxListeners
       \/ \E i \in 1 .. Len(listeners) : listeners[i] = children
    /\ \E r \in {MouseDown(children, Elements, Dom, order)} :
         Commit(r.d, "pointerDown", order, 0, r.err, FALSE, Null, Null)
    /\ UNCHANGED <<children, rootSize, resizes>>

\* a mousemove event on the window
PointerMove ==
    /\ listeners # <<>>
    /\ \E dds \in [1 .. Len(listeners) -> DragDeltas] :
         /\ (\A i \in DOMAIN dds : dds[i] = 0) \/ resizes < MaxResizes
         /\ resizes' = IF \A i \in DOMAIN dds : dds[i] = 0
                       THEN resizes ELSE resizes + 1
         /\ \E r \in {MouseMoveAll(listeners, 1, Elements, dds, Dom,
                                   Resolved(Dom, FALSE, FALSE, Null, Null))} :
              Commit(r.d, "pointerMove", activeSplitterOrder, dds[1],
                     r.err, r.acted, r.prev, r.next)
    /\ UNCHANGED <<children, rootSize>>

\* a mouseup event on the window
PointerUp ==
    /\ listeners # <<>>
    /\ \E r \in {MouseUpAll(listeners, 1, Elements, Dom, FALSE)} :
         Commit(r.d, "pointerUp", activeSplitterOrder, 0, r.err, FALSE, Null, Null)
    /\ UNCHANGED <<children, rootSize, resizes>>

\* The ResplitRoot unmounts: React removes its elements and drops its state.
\* The component has no effect cleanup, so what handleSplitterMouseDown left
\* outside the tree (the window's listeners, the <html> overrides, the ref the
\* attached closures hold) stays as it is.
Teardown ==
    /\ mounted
    /\ mounted' = FALSE
    /\ children' = <<>>
    /\ style' = [o \in Orders |-> NoValue]
    /\ collapsedAttr' = [o \in Orders |-> FALSE]
    /\ aria' = [o \in Orders |-> 100]
    /\ activeAttr' = [o \in Orders |-> FALSE]
    /\ resizing' = FALSE
    /\ last' = [op |-> "teardown", order |-> activeSplitterOrder, arg |-> 0,
                err |-> FALSE, acted |-> FALSE, prev |-> Null, next |-> Null,
                notes |-> <<>>]
    /\ UNCHANGED <<rootSize, activeSplitterOrder, docOverride, listeners, resizes,
                   direction, gone, started>>

(***************************************************************************)
(* The specification.                                                      *)
(***************************************************************************)
Init ==
    /\ children = <<>>
    /\ rootSize \in RootSizes
    /\ style = [o \in Orders |-> NoValue]
    /\ collapsedAttr = [o \in Orders |-> FALSE]
    /\ aria = [o \in Orders |-> 100]
    /\ activeSplitterOrder = Null
    /\ activeAttr = [o \in Orders |-> FALSE]
    /\ resizing = FALSE
    /\ docOverride = FALSE
    /\ listeners = <<>>
    /\ resizes = 0
    /\ mounted = TRUE
    /\ gone = {}
    /\ started = {}
    /\ direction = "horizontal"
    /\ last = [op |-> "init", order |-> Null, arg |-> 0, err |-> FALSE,
               acted |-> FALSE, prev |-> Null, next |-> Null, notes |-> <<>>]

Next ==
    \/ \E o \in Orders, L \in Layouts :
         o \in DOMAIN L /\ registerPane(o, L[o])
    \/ \E o \in Orders, L \in Layouts :
         o \in DOMAIN L /\ registerSplitter(o, L[o])
    \/ \E o \in Orders, key \in Keys : handleSplitterKeyDown(o, key)
    \/ \E paneSizes \in SizeLists : setPaneSizes(paneSizes)
    \/ \E o \in Orders : PointerDown(o)
    \/ PointerMove
    \/ PointerUp
    \/ Teardown

Spec == Init /\ [][Next]_vars

\* Registrations, pointer drags and key presses only: the host never calls
\* setPaneSizes.
NextInteract ==
    \/ \E o \in Orders, L \in Layouts :
         o \in DOMAIN L /\ registerPane(o, L[o])
    \/ \E o \in Orders, L \in Layouts :
         o \in DOMAIN L /\ registerSplitter(o, L[o])
    \/ \E o \in Orders, key \in Keys : handleSplitterKeyDown(o, key)
    \/ \E o \in Orders : PointerDown(o)
    \/ PointerMove
    \/ PointerUp
    \/ Teardown

SpecInteract == Init /\ [][NextInteract]_vars

\* A root as wide as one default splitter: with one splitter registered the
\* space left for the panes is zero.
ZeroRootSizes == {10}

InitZero ==
    /\ children = <<>>
    /\ rootSize \in ZeroRootSizes
    /\ style = [o \in Orders |-> NoValue]
    /\ collapsedAttr = [o \in Orders |-> FALSE]
    /\ aria = [o \in Orders |-> 100]
    /\ activeSplitterOrder = Null
    /\ activeAttr = [o \in Orders |-> FALSE]
    /\ resizing = FALSE
    /\ docOverride = FALSE
    /\ listeners = <<>>
    /\ resizes = 0
    /\ mounted = TRUE
    /\ gone = {}
    /\ started = {}
    /\ direction = "horizontal"
    /\ last = [op |-> "init", order |-> Null, arg |-> 0, err |-> FALSE,
               acted |-> FALSE, prev |-> Null, next |-> Null, notes |-> <<>>]

SpecZero == InitZero /\ [][Next]_vars

\* A root of either direction, the seven keys pressed on its splitters and the
\* host's setPaneSizes calls; no pointer.
InitKeys ==
    /\ children = <<>>
    /\ rootSize \in RootSizes
    /\ style = [o \in Orders |-> NoValue]
    /\ collapsedAttr = [o \in Orders |-> FALSE]
    /\ aria = [o \in Orders |-> 100]
    /\ activeSplitterOrder = Null
    /\ activeAttr = [o \in Orders |-> FALSE]
    /\ resizing = FALSE
    /\ docOverride = FALSE
    /\ listeners = <<>>
    /\ resizes = 0
    /\ mounted = TRUE
    /\ gone = {}
    /\ started = {}
    /\ direction \in Directions
    /\ last = [op |-> "init", order |-> Null, arg |-> 0, err |-> FALSE,
               acted |-> FALSE, prev |-> Null, next |-> Null, notes |-> <<>>]

NextKeys ==
    \/ \E o \in Orders, L \in Layouts :
         o \in DOMAIN L /\ registerPane(o, L[o])
    \/ \E o \in Orders, L \in Layouts :
         o \in DOMAIN L /\ registerSplitter(o, L[o])
    \/ \E o \in Orders, key \in AllKeys : handleSplitterKeyDown(o, key)
    \/ \E paneSizes \in SizeLists : setPaneSizes(paneSizes)

SpecKeys == InitKeys /\ [][NextKeys]_vars

\* Panes that mount at an order that is registered already, and the keys.
NextUpdate ==
    \/ \E o \in Orders, L \in Layouts :
         o \in DOMAIN L /\ registerPane(o, L[o])
    \/ \E o \in Orders, L \in Layouts :
         o \in DOMAIN L /\ registerSplitter(o, L[o])
    \/ \E o \in Orders, options \in PaneUpdates : reregisterPane(o, options)
    \/ \E o \in Orders, key \in Keys : handleSplitterKeyDown(o, key)

SpecUpdate == Init /\ [][NextUpdate]_vars

\* Children that unmount while the root stays, and the keys.
NextUnmount ==
    \/ \E o \in Orders, L \in Layouts :
         o \in DOMAIN L /\ registerPane(o, L[o])
    \/ \E o \in Orders, L \in Layouts :
         o \in DOMAIN L /\ registerSplitter(o, L[o])
    \/ \E o \in Orders : Unmount(o)
    \/ \E o \in Orders, key \in Keys : handleSplitterKeyDown(o, key)

SpecUnmount == Init /\ [][NextUnmount]_vars

\* A host that also writes back the sizes the panes have, and the keys.
NextCurrent ==
    \/ \E o \in Orders, L \in Layouts :
         o \in DOMAIN L /\ registerPane(o, L[o])
    \/ \E o \in Orders, L \in Layouts :
         o \in DOMAIN L /\ registerSplitter(o, L[o])
    \/ \E o \in Orders, key \in Keys : handleSplitterKeyDown(o, key)
    \/ \E paneSizes \in SizeLists \cup {CurrentSizes} : setPaneSizes(paneSizes)

SpecCurrent == Init /\ [][NextCurrent]_vars

\* A root that has no extent along the axis (it is not laid out, or hidden):
\* the children register and the keys are pressed on its splitters.
NoExtentRootSizes == {0}

InitNoExtent ==
    /\ children = <<>>
    /\ rootSize \in NoExtentRootSizes
    /\ style = [o \in Orders |-> NoValue]
    /\ collapsedAttr = [o \in Orders |-> FALSE]
    /\ aria = [o \in Orders |-> 100]
    /\ activeSplitterOrder = Null
    /\ activeAttr = [o \in Orders |-> FALSE]
    /\ resizing = FALSE
    /\ docOverride = FALSE
    /\ listeners = <<>>
    /\ resizes = 0
    /\ mounted = TRUE
    /\ gone = {}
    /\ started = {}
    /\ direction = "horizontal"
    /\ last = [op |-> "init", order |-> Null, arg |-> 0, err |-> FALSE,
               acted |-> FALSE, prev |-> Null, next |-> Null, notes |-> <<>>]

NextNoExtent ==
    \/ \E o \in Orders, L \in Layouts :
         o \in DOMAIN L /\ registerPane(o, L[o])
    \/ \E o \in Orders, L \in Layouts :
         o \in DOMAIN L /\ registerSplitter(o, L[o])
    \/ \E o \in Orders, key \in Keys : handleSplitterKeyDown(o, key)

SpecNoExtent == InitNoExtent /\ [][NextNoExtent]_vars

(***************************************************************************)
(* What the properties read from a state.                                  *)
(***************************************************************************)
\* the registered panes
Panes == {o \in DOMAIN children : children[o].type = "pane"}

\* the size of the child at order o, as resizeByDelta reads it
SizeOf(o) == getChildSizeAsNumber(Dom, o)

\* the minSize of the pane at order o, as resizeByDelta converts it
MinOf(o) == MinSizeNumber(children[o], getRootSize)

\* the collapsedSize of the pane at order o, as a number
CollapsedSizeOf(o) == convertFrToNumber(children[o].collapsedSize)

\* The step being taken is an event that runs resizeByDelta exactly once: a
\* key press on a splitter, or a mousemove with one listener attached, an
\* active splitter and a delta that is not zero.
OneCall ==
    \/ last'.op \in Keys
    \/ /\ last'.op = "pointerMove"
       /\ Len(listeners) = 1
       /\ activeSplitterOrder # Null
       /\ last'.arg # 0

\* The step is one call of resizeByDelta that wrote the sizes of two panes.
OneResolve == OneCall /\ last'.acted

\* the registry held by the closure that makes the call
CallRegistry == IF last'.op \in Keys THEN children ELSE listeners[1]

\* what the call adds to the size of the pane at o before it clamps
Applied(o) ==
    IF o = last'.prev THEN SizeOf(o) + last'.arg ELSE SizeOf(o) - last'.arg

\* the other pane of the pair the call resolved
Other(o) == IF o = last'.prev THEN last'.next ELSE last'.prev

Pair == {last'.prev, last'.next}

(***************************************************************************)
(* Sizes and flags.                                                        *)
(***************************************************************************)
\* C1: after any sequence of registrations, pointer drags and key presses,
\* every registered pane has a size of at least max(0, minSize), unless it is
\* collapsible and sits at its collapsedSize.
C1_SizeAtLeastMin ==
    \A o \in Panes :
        \/ SizeOf(o) >= (IF MinOf(o) > 0 THEN MinOf(o) ELSE 0)
        \/ children[o].collapsible /\ SizeOf(o) = CollapsedSizeOf(o)

\* C2: in every reachable state the flag of every registered pane agrees with
\* its size: the pane is flagged exactly when its size is at or below its
\* minSize.
C2_FlagAgreesWithSize ==
    \A o \in Panes : collapsedAttr[o] <=> SizeOf(o) <= MinOf(o)

(***************************************************************************)
(* One call of resizeByDelta.                                              *)
(***************************************************************************)
\* C3: a call that writes two panes and flags neither of them leaves the sum
\* of their two sizes as it was before the call.
C3_PairSumConserved ==
    [][(OneResolve /\ \A o \in Pair : ~collapsedAttr'[o])
          => style'[last'.prev].n + style'[last'.next].n
               = SizeOf(last'.prev) + SizeOf(last'.next)]_vars

\* a key press resolved two panes and flagged neither
C3_Witness ==
    /\ last.op = "ArrowRight"
    /\ last.acted
    /\ ~collapsedAttr[last.prev]
    /\ ~collapsedAttr[last.next]

\* C4: a call that takes neither pane to or below its minSize adds exactly
\* the delta to the prev pane and takes exactly the delta from the next pane.
C4_ExactDelta ==
    [][(OneResolve /\ \A o \in Pair : Applied(o) > MinOf(o))
          => /\ style'[last'.prev].n = SizeOf(last'.prev) + last'.arg
             /\ style'[last'.next].n = SizeOf(last'.next) - last'.arg]_vars

\* two default panes at 0.5fr each, dragged by -0.1: they end at 0.4fr and
\* 0.6fr
C4_Witness ==
    /\ DOMAIN children = {0, 1, 2}
    /\ children[0] = PaneDefault
    /\ children[2] = PaneDefault
    /\ resizes = 1
    /\ last.op = "pointerMove"
    /\ last.arg = 0 - (Scale \div 10)
    /\ last.acted
    /\ style[0] = Fr(2, 5)
    /\ style[2] = Fr(3, 5)

\* C5 as first stated: a call that takes a non-collapsible pane to or below
\* its minSize leaves that pane exactly at its minSize, flagged, and the other
\* resolved pane holds the rest of the pair's sum.
C5_ClampToMin_Original ==
    [][OneResolve =>
         \A o \in Pair :
            (~children[o].collapsible /\ Applied(o) <= MinOf(o))
               => /\ style'[o].n = MinOf(o)
                  /\ collapsedAttr'[o]
                  /\ style'[Other(o)].n
                       = SizeOf(o) + SizeOf(Other(o)) - MinOf(o)]_vars

\* C5: a call that takes a non-collapsible pane to or below its minSize, and
\* does not take the other resolved pane to or below its own minSize, leaves
\* the first pane exactly at its minSize, flagged, and the other pane holds
\* the rest of the pair's sum.
C5_ClampToMin ==
    [][OneResolve =>
         \A o \in Pair :
            (/\ ~children[o].collapsible
             /\ Applied(o) <= MinOf(o)
             /\ Applied(Other(o)) > MinOf(Other(o)))
               => /\ style'[o].n = MinOf(o)
                  /\ collapsedAttr'[o]
                  /\ style'[Other(o)].n
                       = SizeOf(o) + SizeOf(Other(o)) - MinOf(o)]_vars

\* a pane of minSize 0.2fr at 0.25fr, dragged by -0.1: it ends at 0.2fr,
\* flagged, and its neighbour went from 0.5fr to 0.55fr
C5_Witness ==
    /\ DOMAIN children = {0, 1, 2}
    /\ children[0] = PaneMin
    /\ resizes = 1
    /\ last.op = "pointerMove"
    /\ last.arg = 0 - (Scale \div 10)
    /\ last.acted
    /\ style[0] = Fr(1, 5)
    /\ collapsedAttr[0]
    /\ style[2] = Fr(11, 20)

\* C6: a call that takes a collapsible pane to or below half its minSize
\* leaves that pane flagged and at its collapsedSize, and the other resolved
\* pane holds the rest of the pair's sum.
C6_CollapseToCollapsedSize ==
    [][OneResolve =>
         \A o \in Pair :
            (children[o].collapsible /\ 2 * Applied(o) <= MinOf(o))
               => /\ collapsedAttr'[o]
                  /\ style'[o].n = CollapsedSizeOf(o)
                  /\ style'[Other(o)].n
                       = SizeOf(o) + SizeOf(Other(o)) - CollapsedSizeOf(o)]_vars

(***************************************************************************)
(* The search for the two panes.                                           *)
(***************************************************************************)
\* A pane the search passes over: flagged, and either not collapsible or, being
\* collapsible, at or below half its minSize.
Pinned(reg, o) ==
    /\ collapsedAttr[o]
    /\ \/ ~reg[o].collapsible
       \/ 2 * SizeOf(o) <= MinSizeNumber(reg[o], getRootSize)

\* the panes of the registry reg that are not pinned
Free(reg) == {o \in DOMAIN reg : reg[o].type = "pane" /\ ~Pinned(reg, o)}

\* the nearest free pane below the splitter, or Null
NearestBelow(reg, order) ==
    IF \E o \in Free(reg) : o < order
    THEN CHOOSE o \in Free(reg) :
            o < order /\ \A q \in Free(reg) : q < order => q <= o
    ELSE Null

\* the nearest free pane above the splitter, or Null
NearestAbove(reg, order) ==
    IF \E o \in Free(reg) : o > order
    THEN CHOOSE o \in Free(reg) :
            o > order /\ \A q \in Free(reg) : q > order => q >= o
    ELSE Null

\* the registry reg holds a child at every order from 0 to its last one
Contiguous(reg) == \A o \in DOMAIN reg : \A q \in 0 .. o : q \in DOMAIN reg

\* C7: where the children fill the orders without a gap, a call with a
\* negative delta resolves as prev the nearest pane below the splitter that is
\* not pinned, a call with a positive delta resolves as next the nearest pane
\* above it that is not pinned, and the panes passed over keep their size and
\* flag.
C7_SkipsOnlyPinned ==
    [][(OneCall /\ ~last'.err /\ Contiguous(CallRegistry)) =>
         /\ last'.arg < 0 =>
              /\ last'.prev = NearestBelow(CallRegistry, last'.order)
              /\ \A o \in Panes :
                    (last'.prev < o /\ o < last'.order)
                       => style'[o] = style[o] /\ collapsedAttr'[o] = collapsedAttr[o]
         /\ last'.arg > 0 =>
              /\ last'.next = NearestAbove(CallRegistry, last'.order)
              /\ \A o \in Panes :
                    (last'.order < o /\ last'.next # Null /\ o < last'.next)
                       => style'[o] = style[o] /\ collapsedAttr'[o] = collapsedAttr[o]]_vars

NoPrevPane(reg, order, delta) ==
    IF delta < 0
    THEN \A o \in DOMAIN reg :
            o < order => reg[o].type = "splitter" \/ collapsedAttr[o]
    ELSE (order - 1) \notin DOMAIN reg

\* the registry reg offers no pane to resolve as next
NoNextPane(reg, order, delta) ==
    IF delta > 0
    THEN \A o \in DOMAIN reg :
            o > order => reg[o].type = "splitter" \/ collapsedAttr[o]
    ELSE (order + 1) \notin DOMAIN reg

\* C9: a call that has no resizable pane on one side, because the scan is
\* exhausted or because no child is registered at the adjacent order, raises
\* no error, changes no size, flag or aria-valuenow, and calls no hook.
C9_NoPaneIsNoOp ==
    [][(/\ OneCall
        /\ \/ NoPrevPane(CallRegistry, last'.order, last'.arg)
           \/ NoNextPane(CallRegistry, last'.order, last'.arg))
          => /\ ~last'.err
             /\ ~last'.acted
             /\ last'.notes = <<>>
             /\ UNCHANGED <<style, collapsedAttr, aria>>]_vars

(***************************************************************************)
(* The drag session on a splitter at the boundary.                         *)
(***************************************************************************)
\* the splitter at order has no child registered on one of its two sides
Boundary(order) ==
    (order - 1) \notin DOMAIN children \/ (order + 1) \notin DOMAIN children

\* C10: on the first or last child of a registry without gaps, a splitter with
\* no child registered on one side, pointerDown, pointerUp and a key press end
\* without an error, and after pointerUp the active slot is empty and the
\* listeners are detached.
C10_BoundarySplitterSafe ==
    (/\ last.op \in Keys \cup {"pointerDown", "pointerUp"}
     /\ Contiguous(children)
     /\ Boundary(last.order))
       => /\ ~last.err
          /\ last.op = "pointerUp" =>
                activeSplitterOrder = Null /\ listeners = <<>>

(***************************************************************************)
(* Zero available space.                                                   *)
(***************************************************************************)
\* C11: when the root's size less the sizes of the splitters is zero, a
\* mousemove of the drag changes no size, flag or aria-valuenow, whatever the
\* pointer position, and no size that is not finite is written.
C11_ZeroSpaceMoveIsNoOp ==
    [][(/\ last'.op = "pointerMove"
        /\ Len(listeners) = 1
        /\ AvailableSpace(listeners[1], Dom) = 0)
          => /\ UNCHANGED <<style, collapsedAttr, aria>>
             /\ \A o \in Orders : IsFinite(style'[o].n)]_vars

(***************************************************************************)
(* aria-valuenow of the splitters.                                         *)
(***************************************************************************)
\* the registered splitters that have a registered pane at order - 1
Controlling ==
    {o \in Elements :
        children[o].type = "splitter" /\ (o - 1) \in Panes}

\* C12: in every state, after whatever operation wrote a pane's size, the
\* aria-valuenow of each splitter is the size of the pane at order - 1
\* rounded to two decimals.
C12_AriaIsPaneSize ==
    \A o \in Controlling : aria[o] = ToFixed2(SizeOf(o - 1))

\* a drag took the pane at order 0 from 0.5fr to 0.4fr and the splitter at
\* order 1 shows 0.40
C12_Witness ==
    /\ 1 \in Controlling
    /\ last.op = "pointerMove"
    /\ last.acted
    /\ last.prev = 0
    /\ style[0] = Fr(2, 5)
    /\ aria[1] = 40

\* C13: in every reachable state the aria-valuenow of each registered splitter
\* lies between 0 and 1.
C13_AriaInRange ==
    \A o \in DOMAIN children :
        children[o].type = "splitter" => 0 <= aria[o] /\ aria[o] <= 100

(***************************************************************************)
(* The drag session.                                                       *)
(***************************************************************************)
\* no splitter is being dragged
Idle == activeSplitterOrder = Null

\* nothing of a drag session is left: no splitter is flagged active, the root
\* is not flagged resizing, the document overrides are off and no listener is
\* attached
AtRest ==
    /\ \A o \in Orders : ~activeAttr[o]
    /\ ~resizing
    /\ ~docOverride
    /\ listeners = <<>>

\* C14: a mousedown on a splitter in Idle makes it the active splitter, flags
\* it active, sets the document overrides and attaches the listeners; a
\* mouseup while dragging empties the active slot, clears the flag, restores
\* the overrides and detaches the listeners; in Idle nothing of a drag session
\* is left and a mousemove changes nothing.
C14_IdleDraggingIdle ==
    [][/\ (last'.op = "pointerDown" /\ Idle) =>
             /\ activeSplitterOrder' = last'.order
             /\ activeAttr'[last'.order]
             /\ docOverride'
             /\ listeners' # <<>>
       /\ (last'.op = "pointerUp" /\ ~Idle) => Idle'
       /\ Idle' => AtRest'
       /\ (last'.op = "pointerMove" /\ Idle) =>
             UNCHANGED <<style, collapsedAttr, aria>>]_vars

\* C15: a mousedown on a second splitter while one is being dragged leaves
\* the active slot as it was, and in every state at most one splitter is
\* flagged active, the one the active slot names.
C15_OneDragAtATime ==
    [][/\ (last'.op = "pointerDown" /\ ~Idle) =>
             activeSplitterOrder' = activeSplitterOrder
       /\ \A o \in Orders :
             activeAttr'[o] => activeSplitterOrder' = o]_vars

\* C16: when the layout is torn down while a splitter is being dragged, the
\* drag ends there: after the teardown no mousemove or mouseup listener is
\* attached to the window.
C16_TeardownDetaches ==
    [][(last'.op = "teardown" /\ ~Idle) => listeners' = <<>>]_vars

(***************************************************************************)
(* The keyboard.                                                           *)
(***************************************************************************)
\* the state and the hooks a call resizeByDelta(order, delta) made in place of
\* the step would have left
KeyResolves(delta) ==
    LET r == resizeByDelta(children, Elements, Dom, last'.order, delta)
    IN  /\ style' = r.d.style
        /\ collapsedAttr' = r.d.collapsed
        /\ aria' = r.d.aria
        /\ last'.notes = r.d.notes
        /\ last'.err = r.err

\* the step wrote nothing, called no hook and threw nothing
KeyIgnored ==
    /\ UNCHANGED <<style, collapsedAttr, aria>>
    /\ last'.notes = <<>>
    /\ ~last'.err

\* the delta the key stands for: -0.01, +0.01, -1, +1
DeltaOfKey(key) ==
    CASE key \in {"ArrowLeft", "ArrowUp"}    -> 0 - (Scale \div 100)
      [] key \in {"ArrowRight", "ArrowDown"} -> Scale \div 100
      [] key = "Home"                        -> 0 - Scale
      [] key = "End"                         -> Scale

\* C17 as stated: a press of ArrowLeft, ArrowUp, ArrowRight, ArrowDown, Home or
\* End on a splitter leaves exactly the state resolve(order, d) leaves from the
\* same state, d being -0.01, -0.01, +0.01, +0.01, -1, +1, whatever the
\* direction of the layout.
C17_KeyIsResolve_Original ==
    [][last'.op \in AllKeys \ {"Enter"} => KeyResolves(DeltaOfKey(last'.op))]_vars

\* C17: a press of Home or End, or of an arrow along the direction of the
\* layout (ArrowLeft and ArrowRight when horizontal, ArrowUp and ArrowDown when
\* vertical), leaves exactly the state resolve(order, d) leaves from the same
\* state; a press of an arrow across the direction changes nothing.
C17_KeyIsResolve ==
    [][last'.op \in AllKeys \ {"Enter"} =>
          IF \/ last'.op \in {"Home", "End"}
             \/ last'.op \in {"ArrowLeft", "ArrowRight"} /\ direction = "horizontal"
             \/ last'.op \in {"ArrowUp", "ArrowDown"} /\ direction = "vertical"
          THEN KeyResolves(DeltaOfKey(last'.op))
          ELSE KeyIgnored]_vars

\* in a vertical layout ArrowDown took the pane at order 0 from 0.5fr to 0.51fr
C17_Witness ==
    /\ direction = "vertical"
    /\ last.op = "ArrowDown"
    /\ last.acted
    /\ last.prev = 0
    /\ style[0] = Fr(51, 100)
    /\ style[2] = Fr(49, 100)

\* the pane before the splitter the last key was pressed on is at or below
\* its minSize
PrevAtMin ==
    /\ (last'.order - 1) \in Panes
    /\ LessEq(SizeOf(last'.order - 1), MinOf(last'.order - 1))

\* initialSize || '1fr' of the pane at order o, as a number
InitialOrOne(o) ==
    IF children[o].initialSize.u # "none"
    THEN convertFrToNumber(children[o].initialSize)
    ELSE Scale

\* C18: a press of Enter on a splitter leaves the state resolve(order, d)
\* leaves, d being the initialSize of the pane before the splitter (1 when it
\* has none) when that pane is at or below its minSize, and -1 otherwise.
C18_EnterByPrevState ==
    [][last'.op = "Enter" =>
          KeyResolves(IF PrevAtMin THEN InitialOrOne(last'.order - 1)
                      ELSE 0 - Scale)]_vars

C20_ReregisterIsNoOp ==
    [][last'.op = "reregister"
          => /\ children' = children
             /\ UNCHANGED <<style, collapsedAttr, aria>>]_vars

\* the size the re-derivation pass is to give the pane at order o of the
\* registry ch: its initialSize, or an equal share
ResetSize(ch, o) ==
    IF ch[o].initialSize.u # "none" THEN ch[o].initialSize
    ELSE Fr(1, PaneCount(ch))

\* C21: a registration that changes the registered set leaves every pane at
\* its initialSize or, when it has none, at 1/paneCount, whatever sizes the
\* earlier resizes reached.
C21_RederiveResets ==
    [][(last'.op = "register" /\ DOMAIN children' # DOMAIN children)
          => \A o \in DOMAIN children' :
                children'[o].type = "pane" => style'[o] = ResetSize(children', o)]_vars

\* C22: when a child unmounts it leaves the registry: no child is registered
\* at its order afterwards, and the sizes are those the re-derivation pass
\* gives the children that remain.
C22_UnmountUnregisters ==
    [][last'.op = "unmount"
          => /\ last'.order \notin DOMAIN children'
             /\ \A o \in DOMAIN children' :
                   children'[o].type = "pane"
                      => style'[o] = ResetSize(children', o)]_vars

(***************************************************************************)
(* setPaneSizes.                                                           *)
(***************************************************************************)
\* the i-th pane of the registry in ascending order, i counted from 1
NthPane(i) ==
    CHOOSE o \in Panes : Cardinality({p \in Panes : p < o}) = i - 1

\* C23: setPaneSizes(sizes) leaves the i-th pane in ascending order, whatever
\* its order key, at sizes[i], and flags it exactly when that size is at or
\* below the pane's own minSize.
C23_SetPaneSizesByRank ==
    [][last'.op = "setPaneSizes"
          => \A i \in 1 .. Len(last'.arg) :
                i <= Cardinality(Panes)
                   => /\ style'[NthPane(i)] = last'.arg[i]
                      /\ collapsedAttr'[NthPane(i)] =
                            LessEq(last'.arg[i].n, MinOf(NthPane(i)))]_vars

\* C24: setPaneSizes called with the sizes the panes have changes no pane's
\* size, changes no pane's flag and calls no hook.
C24_CurrentSizesIdempotent ==
    [][(last'.op = "setPaneSizes" /\ last'.arg = CurrentSizes)
          => /\ \A o \in Panes :
                   style'[o] = style[o] /\ collapsedAttr'[o] = collapsedAttr[o]
             /\ last'.notes = <<>>]_vars

(***************************************************************************)
(* The hooks of a drag session.                                            *)
(***************************************************************************)
\* the panes of the registry ch beside the splitter at order
AdjacentPanes(ch, order) ==
    {o \in {order - 1, order + 1} : o \in DOMAIN ch /\ ch[o].type = "pane"}

\* the calls of onResizeEnd a mouseup on the splitter at order is to make:
\* the pane before, then the pane after, each with the size it has
EndCalls(ch, order) ==
    [i \in 1 .. Cardinality(AdjacentPanes(ch, order)) |->
        LET o == IF i = 1 /\ (order - 1) \in AdjacentPanes(ch, order)
                 THEN order - 1 ELSE order + 1
        IN  [hook |-> "onResizeEnd", order |-> o, size |-> style[o]]]

\* C25: a mousedown on a splitter calls onResizeStart on the panes beside it,
\* so that when a mousemove of the session calls onResize both have been told;
\* the mouseup calls onResizeEnd on the panes beside the splitter, each with
\* the size the last resizeByDelta call left it.
C25_StartAndEndHooks ==
    [][/\ last'.op = "pointerDown" =>
             Hooked(last'.notes, "onResizeStart")
                = AdjacentPanes(children, last'.order)
       /\ (last'.op = "pointerMove" /\ last'.acted /\ Len(listeners) = 1) =>
             AdjacentPanes(listeners[1], activeSplitterOrder) \subseteq started
       /\ (last'.op = "pointerUp" /\ ~Idle /\ Len(listeners) = 1) =>
             /\ last'.notes = EndCalls(listeners[1], activeSplitterOrder)
             /\ \A i \in DOMAIN last'.notes : last'.notes[i].size.u = "fr"]_vars

(***************************************************************************)
(* The sizes of the whole layout.                                          *)
(***************************************************************************)
RECURSIVE SumOfPanes(_)
\* the sum of the sizes of the registered panes at the orders from i up
SumOfPanes(i) ==
    IF i > MaxOrder THEN 0
    ELSE (IF i \in Panes THEN SizeOf(i) ELSE 0) + SumOfPanes(i + 1)

\* C26: in every state of a layout that has panes, the sizes of the panes, as
\* fractions of the space the splitters leave, sum to 1.
C26_PanesFillRoot ==
    Panes # {} => SumOfPanes(0) = Scale

(***************************************************************************)
(* The frame of one call of resizeByDelta.                                 *)
(***************************************************************************)
\* C27: a call of resizeByDelta that resolves two panes changes the size and
\* the flag of those two panes only: the size and the flag of every other
\* pane, and the size of every splitter, are what they were before the call.
C27_ResolveFrame ==
    [][OneResolve
          => \A o \in Orders \ Pair :
                /\ style'[o] = style[o]
                /\ collapsedAttr'[o] = collapsedAttr[o]]_vars

\* a key press resolved two panes of a layout of three, the third one flagged
C27_Witness ==
    /\ last.op \in Keys
    /\ last.acted
    /\ Cardinality(Panes) = 3
    /\ \E o \in Panes \ {last.prev, last.next} : collapsedAttr[o]

\* C28: a call that takes both resolved panes to or below their minSize
\* clamps the prev pane first and the next pane second: the next pane ends
\* exactly at its minSize, the prev pane holds what the second clamp hands
\* back, the pair's sum less the next pane's minSize, and both are flagged.
C28_PrevThenNext ==
    [][(OneResolve /\ \A o \in Pair : Applied(o) <= MinOf(o))
          => /\ style'[last'.next].n = MinOf(last'.next)
             /\ style'[last'.prev].n
                  = SizeOf(last'.prev) + SizeOf(last'.next) - MinOf(last'.next)
             /\ \A o \in Pair : collapsedAttr'[o]]_vars

\* panes of minSize 0.2fr and 0fr set to 0fr and 0.1fr, then dragged by +0.1:
\* both cross; the prev pane ends at 0.1fr, not at its minSize, and the next
\* pane at 0fr
C28_Witness ==
    /\ DOMAIN children = {0, 1, 2}
    /\ children[0] = PaneMin
    /\ last.op = "pointerMove"
    /\ last.arg = Scale \div 10
    /\ last.acted
    /\ style[0] = Fr(1, 10)
    /\ style[2] = Fr(0, 1)
    /\ collapsedAttr[0]
    /\ collapsedAttr[2]

\* C29: a collapsible pane that is at its collapsedSize and gains space in a
\* call stays flagged and is clamped back to its collapsedSize as long as its
\* delta-applied size is at or below half its minSize; it leaves that state
\* only through a call that takes it above half its minSize.
C29_StaysCollapsed ==
    [][OneResolve =>
         \A o \in Pair :
            (/\ children[o].collapsible
             /\ SizeOf(o) = CollapsedSizeOf(o)
             /\ Applied(o) > SizeOf(o)
             /\ 2 * Applied(o) <= MinOf(o))
               => /\ collapsedAttr'[o]
                  /\ style'[o].n = CollapsedSizeOf(o)]_vars

(***************************************************************************)
(* The mousemove of a drag.                                                *)
(***************************************************************************)
\* what the pointer moved along the axis, as the attached listener measures it
MovedBy == Movement(listeners[1], Dom, last'.arg)

\* C30: a mousemove while a splitter of the mounted layout is dragged changes
\* nothing when the pointer did not move, and otherwise leaves exactly the
\* state one call resolve(active order, delta) leaves from the state the
\* previous event left, delta being the movement divided by the root's size
\* less the sizes of the registered splitters.
C30_MoveIsOneResolve ==
    [][(/\ last'.op = "pointerMove"
        /\ mounted
        /\ ~Idle
        /\ Len(listeners) = 1)
          => IF MovedBy = 0 THEN KeyIgnored
             ELSE KeyResolves(MoveDelta(MovedBy, AvailableSpace(children, Dom)))]_vars

(***************************************************************************)
(* The keyboard and the drag session.                                      *)
(***************************************************************************)
\* the document as it would be with no drag in progress
IdleDom ==
    [Dom EXCEPT !.active = Null,
                !.activeAttr = [o \in Orders |-> FALSE],
                !.resizing = FALSE,
                !.docOverride = FALSE,
                !.listeners = <<>>]

\* C31: a key press on a splitter, whether or not a splitter is being dragged,
\* leaves the active slot, the active flags and the attached listeners as
\* they were, and writes the sizes, flags and aria-valuenow and calls the
\* hooks exactly as the same press would with no drag in progress; the active
\* slot is emptied by a mouseup or a teardown only.
C31_KeyIndependentOfDrag ==
    [][/\ last'.op \in Keys =>
            /\ UNCHANGED <<activeSplitterOrder, activeAttr, listeners>>
            /\ LET r == resizeByDelta(children, Elements, IdleDom, last'.order,
                                      KeyDelta(children, Elements, IdleDom,
                                               last'.order, last'.op))
               IN  /\ style' = r.d.style
                   /\ collapsedAttr' = r.d.collapsed
                   /\ aria' = r.d.aria
                   /\ last'.notes = r.d.notes
                   /\ last'.err = r.err
       /\ (~Idle /\ Idle') => last'.op \in {"pointerUp", "teardown"}]_vars

\* while the splitter at order 1 is dragged, a key pressed on it resized two
\* panes and the drag goes on
C31_Witness ==
    /\ last.op \in Keys
    /\ last.acted
    /\ activeSplitterOrder = last.order
    /\ activeAttr[last.order]
    /\ listeners # <<>>

AllWritten ==
    \A i \in 1 .. Len(last'.arg) :
        i <= Cardinality(Panes) => style'[NthPane(i)] = last'.arg[i]

\* the call left the size and the flag of every pane as they were
NoneWritten ==
    \A o \in Panes : style'[o] = style[o] /\ collapsedAttr'[o] = collapsedAttr[o]

\* C33: a call of setPaneSizes, whatever the length of its list, either writes
\* every pane the list reaches or leaves every pane as it was.
C33_SetPaneSizesAtomic ==
    [][last'.op = "setPaneSizes" => AllWritten \/ NoneWritten]_vars

(***************************************************************************)
(* The onResize hook.                                                      *)
(***************************************************************************)
\* one call of onResize on the pane at o, with the size the step left it
ResizeCall(o) == [hook |-> "onResize", order |-> o, size |-> style'[o]]

C35_GapsTolerated ==
    [][(/\ last'.op \in Keys \cup {"pointerDown", "pointerMove", "pointerUp",
                                   "setPaneSizes"}
        /\ mounted
        /\ ~Contiguous(children))
          => /\ ~last'.err
             /\ (OneCall /\ last'.arg < 0)
                   => last'.prev = NearestBelow(CallRegistry, last'.order)
             /\ (OneCall /\ last'.arg > 0)
                   => last'.next = NearestAbove(CallRegistry, last'.order)]_vars

(***************************************************************************)
(* The unit conversion.                                                    *)
(***************************************************************************)
\* C36: the conversion of a pane's minSize to fr leaves an fr value as it is,
\* makes px / root of a px value, and where the root has no extent makes 0fr
\* of it, never NaN or Infinity: the minSize a call of resizeByDelta works
\* with is finite, and so is every size it writes.
C36_ConversionIsFinite ==
    /\ \A o \in Panes :
          \E v \in {convertSizeToFr(children[o].minSize, getRootSize)} :
             /\ v.u = "fr"
             /\ ~isPx(children[o].minSize) => v = children[o].minSize
             /\ (isPx(children[o].minSize) /\ rootSize # 0)
                   => v.n = (children[o].minSize.n * Scale) \div getRootSize
             /\ (isPx(children[o].minSize) /\ rootSize = 0) => v.n = 0
             /\ IsFinite(MinOf(o))
    /\ \A o \in Orders : IsFinite(style[o].n)

C38_ResizedPanesWereStarted ==
    [][(last'.op = "pointerMove" /\ mounted /\ Len(listeners) = 1)
          => Hooked(last'.notes, "onResize") \subseteq started]_vars

(***************************************************************************)
(* The registry a drag works with.                                         *)
(***************************************************************************)
\* C39: when the registry changes while a splitter is dragged, the mousemoves
\* and the mouseup that follow work with the registry as it is when they are
\* delivered: a mousemove leaves the sizes, flags and aria-valuenow and calls
\* the hooks that handleMouseMove of the current render would, a mouseup
\* calls the hooks and raises the error that handleMouseUp of the current
\* render would.
C39_DragSeesRegistry ==
    [][/\ (last'.op = "pointerMove" /\ mounted /\ Len(listeners) = 1)
             => \E r \in {MouseMove(children, Elements, Dom, MovedBy)} :
                   /\ style' = r.d.style
                   /\ collapsedAttr' = r.d.collapsed
                   /\ aria' = r.d.aria
                   /\ last'.notes = r.d.notes
                   /\ last'.err = r.err
       /\ (last'.op = "pointerUp" /\ mounted /\ Len(listeners) = 1)
             => \E r \in {MouseUp(children, Elements, Dom)} :
                   /\ last'.notes = r.d.notes
                   /\ last'.err = r.err
                   /\ activeSplitterOrder' = r.d.active]_vars

====
